---- MODULE Spec2Model ----
(***************************************************************************)
(* Model of the survey aggregator (NLP_with_ML/process_survey.py) and of   *)
(* the text cleaner (NLP_with_ML/text_preprocessing.py).                   *)
(*                                                                         *)
(* Strings (file names, comments) are sequences of one-character strings.  *)
(* A floating point mean is an exact fraction <<numerator, denominator>>   *)
(* in lowest terms; the not-a-number mean of an empty slice is <<0, 0>>.   *)
(***************************************************************************)
EXTENDS Integers, Sequences, FiniteSets, TLC

VARIABLES
    directory,   \* what os.listdir / pd.read_csv see: sequence of [name, content]
    fn,          \* which function is running: "default" or "custom"
    row_ranges,  \* the row_ranges argument (sequence of [metric, start, end])
    csv_files,   \* the filtered listing (indices into directory)
    idx,         \* number of loop iterations already taken over csv_files
    data,        \* the dict of lists
    result_df,   \* the returned DataFrame (sequence of rows)
    pc,          \* "call", "loop", "done", "raised", or "idle"
    series,      \* argument of remove_lower (one element of the Series)
    output,      \* local variable output of remove_lower
    tpc          \* position inside remove_lower

surveyVars == <<directory, fn, row_ranges, csv_files, idx, data, result_df, pc>>
textVars == <<series, output, tpc>>
vars == <<directory, fn, row_ranges, csv_files, idx, data, result_df, pc,
          series, output, tpc>>

(***************************************************************************)
(* Bounds                                                                  *)
(***************************************************************************)
MaxLen == 4      \* longest comment string
MaxFiles == 2    \* most .csv entries in the folder
MaxRows == 22    \* longest AVG column
MaxVal == 2      \* largest score in an AVG cell

(***************************************************************************)
(* Generic helpers                                                         *)
(***************************************************************************)
RECURSIVE SeqsUpTo(_, _)
SeqsUpTo(S, n) ==
    IF n = 0 THEN {<<>>}
    ELSE LET shorter == SeqsUpTo(S, n - 1)
         IN  shorter \cup {Append(s, c) : s \in {t \in shorter : Len(t) = n - 1}, c \in S}

IsPrefix(s, t) == Len(s) <= Len(t) /\ SubSeq(t, 1, Len(s)) = s

RECURSIVE GCD(_, _)
GCD(a, b) == IF b = 0 THEN a ELSE GCD(b, a % b)

(***************************************************************************)
(* Text cleaner: remove_lower                                              *)
(***************************************************************************)
Chars == {"a", "A", "_", "!", " ", "[", "]", "\n"}

\* str.lower on one character
LowerChar(c) == IF c = "A" THEN "a" ELSE c
IsUpper(c) == c = "A"
\* regex classes \w (letters, digits and the underscore) and \s
IsAlnum(c) == c \in {"a", "A"}
IsWord(c) == IsAlnum(c) \/ c = "_"
IsSpace(c) == c \in {" ", "\n"}

\* series.str.lower()
StrLower(s) == [i \in 1..Len(s) |-> LowerChar(s[i])]

\* The lazy body .*? of \[.*?\] followed by \]: from position j, the index
\* of the closing bracket the match ends at, or 0 when there is no match.
\* The dot matches every character but the line feed.
RECURSIVE LazyDotClose(_, _)
LazyDotClose(s, j) ==
    IF j > Len(s) THEN 0
    ELSE IF s[j] = "]" THEN j
    ELSE IF s[j] = "\n" THEN 0
    ELSE LazyDotClose(s, j + 1)

\* re.sub(r'\[.*?\]', '', s): one left-to-right pass over non-overlapping
\* matches, from position i on.
RECURSIVE SubBracketsFrom(_, _)
SubBracketsFrom(s, i) ==
    IF i > Len(s) THEN <<>>
    ELSE IF s[i] = "[" /\ LazyDotClose(s, i + 1) # 0
         THEN SubBracketsFrom(s, LazyDotClose(s, i + 1) + 1)
         ELSE <<s[i]>> \o SubBracketsFrom(s, i + 1)

StrReplaceBrackets(s) == SubBracketsFrom(s, 1)

\* re.sub(r'[^\w\s]', '', s)
StrReplacePunct(s) == SelectSeq(s, LAMBDA c : IsWord(c) \/ IsSpace(c))

TextInit ==
    /\ series \in SeqsUpTo(Chars, MaxLen)
    /\ output = <<>>
    /\ tpc = "line7"

\* line 7: output = series.str.lower()
LowerStep ==
    /\ tpc = "line7"
    /\ output' = StrLower(series)
    /\ tpc' = "line8"
    /\ UNCHANGED series

\* line 8: output = series.str.replace(r'\[.*?\]', '', regex=True)
\* (reads series, not output)
BracketStep ==
    /\ tpc = "line8"
    /\ output' = StrReplaceBrackets(series)
    /\ tpc' = "line9"
    /\ UNCHANGED series

\* line 9: output = output.str.replace(r'[^\w\s]', '', regex=True); return
PunctStep ==
    /\ tpc = "line9"
    /\ output' = StrReplacePunct(output)
    /\ tpc' = "returned"
    /\ UNCHANGED series

SurveyIdle ==
    /\ directory = <<>>
    /\ fn = "none"
    /\ row_ranges = <<>>
    /\ csv_files = <<>>
    /\ idx = 0
    /\ data = <<>>
    /\ result_df = <<>>
    /\ pc = "idle"

InitText == TextInit /\ SurveyIdle

NextText ==
    \/ LowerStep /\ UNCHANGED surveyVars
    \/ BracketStep /\ UNCHANGED surveyVars
    \/ PunctStep /\ UNCHANGED surveyVars

SpecText == InitText /\ [][NextText]_vars

(***************************************************************************)
(* Claims about remove_lower                                               *)
(***************************************************************************)
NoUpper(s) == \A i \in 1..Len(s) : ~IsUpper(s[i])

\* C6: the value remove_lower returns is the bracket strip followed by the
\* punctuation strip of the LOWERCASED input, so it holds no uppercase
\* character.
C6_LowercasedFirst ==
    tpc = "returned" =>
        /\ output = StrReplacePunct(StrReplaceBrackets(StrLower(series)))
        /\ NoUpper(output)

\* C7: the value remove_lower returns holds only alphanumeric characters and
\* whitespace (the underscore is removed too), and it is exactly the
\* alphanumeric and whitespace characters left outside the bracketed
\* segments, in their original order.
C7_OnlyAlnumAndSpace ==
    tpc = "returned" =>
        /\ \A i \in 1..Len(output) : IsAlnum(output[i]) \/ IsSpace(output[i])
        /\ output = SelectSeq(StrReplaceBrackets(series),
                              LAMBDA c : IsAlnum(c) \/ IsSpace(c))

\* Index of the first "]" after position i, or 0 (any character may lie
\* between, the line feed included).
RECURSIVE FirstCloseAfter(_, _)
FirstCloseAfter(s, j) ==
    IF j > Len(s) THEN 0
    ELSE IF s[j] = "]" THEN j
    ELSE FirstCloseAfter(s, j + 1)

\* Position k lies in a segment that starts at a "[" and ends at the first
\* following "]".
InBracketSegment(s, k) ==
    \E i \in 1..k : /\ s[i] = "["
                    /\ FirstCloseAfter(s, i + 1) # 0
                    /\ k <= FirstCloseAfter(s, i + 1)

RECURSIVE KeepOutsideSegments(_, _)
KeepOutsideSegments(s, k) ==
    IF k > Len(s) THEN <<>>
    ELSE (IF InBracketSegment(s, k) THEN <<>> ELSE <<s[k]>>)
         \o KeepOutsideSegments(s, k + 1)

\* C8: every segment from a "[" to the first following "]" is deleted,
\* whatever lies between them (line feeds included): the returned value is
\* the punctuation strip of the characters outside all such segments.
C8_BracketSegmentsDeleted ==
    tpc = "returned" =>
        output = StrReplacePunct(KeepOutsideSegments(series, 1))

(***************************************************************************)
(* Survey aggregator: process_teacher_csvs and process_teacher_csvs_custom *)
(***************************************************************************)
DotCsv == <<".", "c", "s", "v">>

\* f.endswith('.csv')
EndsWith(s, suf) ==
    /\ Len(s) >= Len(suf)
    /\ SubSeq(s, Len(s) - Len(suf) + 1, Len(s)) = suf

\* s.replace(old, ''): every non-overlapping occurrence of old, left to right
RECURSIVE StrRemoveFrom(_, _, _)
StrRemoveFrom(s, old, i) ==
    IF i > Len(s) THEN <<>>
    ELSE IF i + Len(old) - 1 <= Len(s) /\ SubSeq(s, i, i + Len(old) - 1) = old
         THEN StrRemoveFrom(s, old, i + Len(old))
         ELSE <<s[i]>> \o StrRemoveFrom(s, old, i + 1)

StrRemove(s, old) == StrRemoveFrom(s, old, 1)

\* Folder entries: names that pass the '.csv' filter and one that does not.
CsvNames == {<<"a">> \o DotCsv, <<"a">> \o DotCsv \o DotCsv, <<"b">> \o DotCsv}
OtherNames == {<<"a", ".", "t", "x", "t">>}

\* What pd.read_csv makes of a file: it raises, or it gives a table.  A
\* table has column labels, its AVG column (one score per row; row r of the
\* code is AVG[r + 1]) and the set of rows whose AVG cell is empty (NaN).
Unreadable == [kind |-> "unreadable", columns |-> {}, AVG |-> <<>>, missing |-> {}]
NoAvgTable == [kind |-> "table", columns |-> {"Q"}, AVG |-> <<>>, missing |-> {}]

BaseScore(r) == (r % MaxVal) + 1
RowCounts == {0, 20, 21, MaxRows}
PerturbRows == {4, 20, MaxRows - 1}
OtherScore(r) == (BaseScore(r) % MaxVal) + 1

BaseTable(n) ==
    [kind |-> "table", columns |-> {"Q", "AVG"},
     AVG |-> [i \in 1..n |-> BaseScore(i - 1)], missing |-> {}]
PerturbedTable(n, p, v) ==
    [kind |-> "table", columns |-> {"Q", "AVG"},
     AVG |-> [i \in 1..n |-> IF i - 1 = p THEN v ELSE BaseScore(i - 1)],
     missing |-> {}]
GapTable(n, p) ==
    [kind |-> "table", columns |-> {"Q", "AVG"},
     AVG |-> [i \in 1..n |-> BaseScore(i - 1)], missing |-> {p}]

AvgTables ==
    {BaseTable(n) : n \in RowCounts}
    \cup {PerturbedTable(t[1], t[2], OtherScore(t[2])) :
              t \in {u \in RowCounts \X PerturbRows : u[2] < u[1]}}
    \cup {GapTable(21, 4)}

Contents == {Unreadable, NoAvgTable} \cup AvgTables

\* Folders: an optional non-csv entry followed by up to MaxFiles csv entries
\* with distinct names, in listing order.
CsvListings ==
    {l \in SeqsUpTo([name : CsvNames, content : Contents], MaxFiles) :
        \A i, j \in 1..Len(l) : i # j => l[i].name # l[j].name}
Directories ==
    CsvListings
    \cup {<<[name |-> o, content |-> Unreadable]>> \o l : o \in OtherNames, l \in CsvListings}

\* The hard-coded bands of process_teacher_csvs, also the docstring example
\* of row_ranges.
DefaultBandsShifted ==
    << [metric |-> "Instructor_Skill", start |-> 0, end |-> 5],
       [metric |-> "Interaction", start |-> 5, end |-> 10],
       [metric |-> "Student_Motivation", start |-> 11, end |-> 15],
       [metric |-> "Course_Organization", start |-> 15, end |-> 21] >>
DefaultBands ==
    << [metric |-> "Instructor_Skill", start |-> 0, end |-> 5],
       [metric |-> "Interaction", start |-> 5, end |-> 11],
       [metric |-> "Student_Motivation", start |-> 11, end |-> 15],
       [metric |-> "Course_Organization", start |-> 15, end |-> 21] >>
\* another row_ranges argument
TwoBands ==
    << [metric |-> "Interaction", start |-> 3, end |-> 6],
       [metric |-> "Course_Organization", start |-> 20, end |-> 22] >>
RowRangeArgs == {DefaultBands, TwoBands}

\* Series.iloc[start:end] on a column of n rows: the selected row positions.
\* A slice is clipped to the column; it never raises IndexError.
ILocSliceStrict(n, start, end) ==
    [raises |-> end > n, rows |-> {r \in 0..(n - 1) : start <= r /\ r < end}]
ILocSlice(n, start, end) ==
    [raises |-> FALSE, rows |-> {r \in 0..(n - 1) : start <= r /\ r < end}]

RECURSIVE SumRows(_, _)
SumRows(col, rows) ==
    IF rows = {} THEN 0
    ELSE LET r == CHOOSE x \in rows : TRUE
         IN  col[r + 1] + SumRows(col, rows \ {r})

NaNMean == <<0, 0>>
\* Series.mean(): empty cells are skipped, nothing left gives NaN
Mean(col, rows, missing) ==
    LET present == rows \ missing
        n == Cardinality(present)
        s == SumRows(col, present)
    IN  IF n = 0 THEN NaNMean
        ELSE <<s \div GCD(s, n), n \div GCD(s, n)>>

\* df['AVG'].iloc[start:end].mean()
BandMean(df, start, end) ==
    LET sl == ILocSlice(Len(df.AVG), start, end)
    IN  [indexError |-> sl.raises, value |-> Mean(df.AVG, sl.rows, df.missing)]

HasAvgColumnAlways(df) == TRUE
\* 'AVG' in df.columns
HasAvgColumn(df) == "AVG" \in df.columns

AppendTo(d, col, v) == [d EXCEPT ![col] = Append(@, v)]

\* One iteration of the loop of process_teacher_csvs on one folder entry:
\* the dict afterwards and whether an exception left the function.
ProcessDefault(d, entry) ==
    LET teacher_name == StrRemove(entry.name, DotCsv)
        df == entry.content
        instructor_skill == BandMean(df, DefaultBands[1].start, DefaultBands[1].end)
        interaction == BandMean(df, DefaultBands[2].start, DefaultBands[2].end)
        student_motivation == BandMean(df, DefaultBands[3].start, DefaultBands[3].end)
        course_organization == BandMean(df, DefaultBands[4].start, DefaultBands[4].end)
    IN  IF df.kind = "unreadable" THEN [data |-> d, raised |-> TRUE]
        ELSE IF ~HasAvgColumn(df) THEN [data |-> d, raised |-> FALSE]
        ELSE IF \/ instructor_skill.indexError \/ interaction.indexError
                \/ student_motivation.indexError \/ course_organization.indexError
             THEN [data |-> d, raised |-> FALSE]
        ELSE [data |->
                 [d EXCEPT !.Name = Append(@, teacher_name),
                           !.Instructor_Skill = Append(@, instructor_skill.value),
                           !.Interaction = Append(@, interaction.value),
                           !.Student_Motivation = Append(@, student_motivation.value),
                           !.Course_Organization = Append(@, course_organization.value)],
              raised |-> FALSE]

\* The for loop over row_ranges.items() inside the try block, from band k on
RECURSIVE CustomBands(_, _, _, _)
CustomBands(d, df, rr, k) ==
    IF k > Len(rr) THEN [data |-> d, indexError |-> FALSE]
    ELSE LET avg_value == BandMean(df, rr[k].start, rr[k].end)
         IN  IF avg_value.indexError THEN [data |-> d, indexError |-> TRUE]
             ELSE CustomBands(AppendTo(d, rr[k].metric, avg_value.value), df, rr, k + 1)

\* One iteration of the loop of process_teacher_csvs_custom
ProcessCustom(d, entry, rr) ==
    LET teacher_name == StrRemove(entry.name, DotCsv)
        df == entry.content
        tried == CustomBands(AppendTo(d, "Name", teacher_name), df, rr, 1)
    IN  IF df.kind = "unreadable" THEN [data |-> d, raised |-> TRUE]
        ELSE IF ~HasAvgColumn(df) THEN [data |-> d, raised |-> FALSE]
        ELSE IF tried.indexError
             THEN [data |-> [tried.data EXCEPT !.Name = SubSeq(@, 1, Len(@) - 1)],
                   raised |-> FALSE]
        ELSE [data |-> tried.data, raised |-> FALSE]

\* pd.DataFrame(data): one row per position; lists of unequal length raise
DataFrame(d) ==
    IF \A c \in DOMAIN d : Len(d[c]) = Len(d.Name)
    THEN [raised |-> FALSE,
          rows |-> [i \in 1..Len(d.Name) |-> [c \in DOMAIN d |-> d[c][i]]]]
    ELSE [raised |-> TRUE, rows |-> <<>>]

\* [f for f in os.listdir(folder_path) if f.endswith('.csv')], as positions
\* in the listing
CsvFilesOf(dir) ==
    SelectSeq([i \in 1..Len(dir) |-> i], LAMBDA i : EndsWith(dir[i].name, DotCsv))

EmptyDefaultData ==
    [Name |-> <<>>, Instructor_Skill |-> <<>>, Interaction |-> <<>>,
     Student_Motivation |-> <<>>, Course_Organization |-> <<>>]
EmptyCustomData(rr) ==
    [c \in {"Name"} \cup {rr[k].metric : k \in 1..Len(rr)} |-> <<>>]

SurveyInit ==
    /\ directory \in Directories
    /\ fn \in {"default", "custom"}
    /\ row_ranges \in (IF fn = "default" THEN {<<>>} ELSE RowRangeArgs)
    /\ csv_files = <<>>
    /\ idx = 0
    /\ data = <<>>
    /\ result_df = <<>>
    /\ pc = "call"

\* lines 28-40 and 148-153: the empty dict of lists and the filtered listing
Begin ==
    /\ pc = "call"
    /\ data' = IF fn = "default" THEN EmptyDefaultData ELSE EmptyCustomData(row_ranges)
    /\ csv_files' = CsvFilesOf(directory)
    /\ pc' = "loop"
    /\ UNCHANGED <<directory, fn, row_ranges, idx, result_df>>

CurrentEntry == directory[csv_files[idx + 1]]

\* lines 42-87: one pass of the loop body
IterateDefault ==
    /\ pc = "loop"
    /\ fn = "default"
    /\ idx < Len(csv_files)
    /\ LET r == ProcessDefault(data, CurrentEntry)
       IN  /\ data' = r.data
           /\ pc' = IF r.raised THEN "raised" ELSE "loop"
           /\ idx' = idx + 1
    /\ UNCHANGED <<directory, fn, row_ranges, csv_files, result_df>>

\* lines 155-174: one pass of the loop body
IterateCustom ==
    /\ pc = "loop"
    /\ fn = "custom"
    /\ idx < Len(csv_files)
    /\ LET r == ProcessCustom(data, CurrentEntry, row_ranges)
       IN  /\ data' = r.data
           /\ pc' = IF r.raised THEN "raised" ELSE "loop"
           /\ idx' = idx + 1
    /\ UNCHANGED <<directory, fn, row_ranges, csv_files, result_df>>

\* lines 90-95: result_df = pd.DataFrame(data); return result_df
ReturnDefault ==
    /\ pc = "loop"
    /\ fn = "default"
    /\ idx = Len(csv_files)
    /\ result_df' = DataFrame(data).rows
    /\ pc' = IF DataFrame(data).raised THEN "raised" ELSE "done"
    /\ UNCHANGED <<directory, fn, row_ranges, csv_files, idx, data>>

\* line 176: return pd.DataFrame(data)
ReturnCustom ==
    /\ pc = "loop"
    /\ fn = "custom"
    /\ idx = Len(csv_files)
    /\ result_df' = DataFrame(data).rows
    /\ pc' = IF DataFrame(data).raised THEN "raised" ELSE "done"
    /\ UNCHANGED <<directory, fn, row_ranges, csv_files, idx, data>>

TextIdle ==
    /\ series = <<>>
    /\ output = <<>>
    /\ tpc = "idle"

Init == SurveyInit /\ TextIdle

Next ==
    \/ Begin /\ UNCHANGED textVars
    \/ IterateDefault /\ UNCHANGED textVars
    \/ IterateCustom /\ UNCHANGED textVars
    \/ ReturnDefault /\ UNCHANGED textVars
    \/ ReturnCustom /\ UNCHANGED textVars

Spec == Init /\ [][Next]_vars

(***************************************************************************)
(* Claims about the survey aggregator                                      *)
(***************************************************************************)
\* The folder entry the loop handled last
LastEntry == directory[csv_files[idx]]
IsAvgTable(c) == c.kind = "table" /\ "AVG" \in c.columns
\* a table with an AVG column of at least 21 rows, all of them numeric
IsNumeric21(c) == IsAvgTable(c) /\ Len(c.AVG) >= 21 /\ c.missing = {}
\* a table the aggregator should accept
IsValid21(c) == IsAvgTable(c) /\ Len(c.AVG) >= 21
\* the fraction m is the quotient total / count
IsQuotient(m, total, count) == m[2] # 0 /\ m[1] * count = total * m[2]
AgreeOnRows(a, b, lo, hi) == \A r \in lo..hi : a[r + 1] = b[r + 1]
\* the last record of the dict of lists
LastOf(col) == data[col][Len(data[col])]
JustHandled == pc = "loop" /\ idx >= 1

\* C1: when process_teacher_csvs has handled a table with an AVG column of
\* at least 21 numeric rows, the record it emitted has Instructor_Skill =
\* mean of rows 0..4, Interaction = mean of rows 5..10, Student_Motivation =
\* mean of rows 11..14 and Course_Organization = mean of rows 15..20, and
\* every table that agrees with it on a band has the same mean for that band
\* whatever its other rows (rows 21 and beyond included) hold.
C1_BandMeans ==
    (fn = "default" /\ JustHandled /\ IsNumeric21(LastEntry.content)) =>
        LET a == LastEntry.content.AVG
        IN  /\ Len(data.Name) >= 1
            /\ IsQuotient(LastOf("Instructor_Skill"),
                          a[1] + a[2] + a[3] + a[4] + a[5], 5)
            /\ IsQuotient(LastOf("Interaction"),
                          a[6] + a[7] + a[8] + a[9] + a[10] + a[11], 6)
            /\ IsQuotient(LastOf("Student_Motivation"),
                          a[12] + a[13] + a[14] + a[15], 4)
            /\ IsQuotient(LastOf("Course_Organization"),
                          a[16] + a[17] + a[18] + a[19] + a[20] + a[21], 6)
            /\ \A t \in {c \in AvgTables : IsNumeric21(c)} :
                  /\ AgreeOnRows(a, t.AVG, 0, 4) =>
                        BandMean(t, 0, 5).value = LastOf("Instructor_Skill")
                  /\ AgreeOnRows(a, t.AVG, 5, 10) =>
                        BandMean(t, 5, 11).value = LastOf("Interaction")
                  /\ AgreeOnRows(a, t.AVG, 11, 14) =>
                        BandMean(t, 11, 15).value = LastOf("Student_Motivation")
                  /\ AgreeOnRows(a, t.AVG, 15, 20) =>
                        BandMean(t, 15, 21).value = LastOf("Course_Organization")

\* C1 witness: a record was emitted for a numeric table longer than 21 rows
\* whose last row differs from the unperturbed score.
C1_Witness ==
    /\ fn = "default" /\ JustHandled /\ IsNumeric21(LastEntry.content)
    /\ Len(LastEntry.content.AVG) > 21
    /\ LastEntry.content.AVG[Len(LastEntry.content.AVG)]
          # BaseScore(Len(LastEntry.content.AVG) - 1)
    /\ Len(data.Name) = idx

CsvEntries == [k \in 1..Len(csv_files) |-> directory[csv_files[k]]]
CountWhere(es, P(_)) == Cardinality({k \in 1..Len(es) : P(es[k])})

\* C2: process_teacher_csvs never raises on a table with an AVG column and
\* fewer than 21 rows and emits no record for it, while it accepts a table of
\* exactly 21 rows: when only tables with an AVG column are in the folder the
\* function returns, and the Result Table has exactly one row per table of at
\* least 21 rows.
C2_ShortTablesRejected ==
    /\ (fn = "default" /\ pc = "raised") =>
          \E k \in 1..Len(csv_files) : ~IsAvgTable(CsvEntries[k].content)
    /\ (fn = "default" /\ pc = "done"
        /\ \A k \in 1..Len(csv_files) : IsAvgTable(CsvEntries[k].content)) =>
          Len(result_df) = CountWhere(CsvEntries, LAMBDA e : IsValid21(e.content))

\* C3: a discovered file that fails to load is skipped: the function does
\* not raise to its caller, and the Result Table it returns has one row for
\* every other file that has an AVG column.
C3_LoadFailureSkipped ==
    /\ pc # "raised"
    /\ pc = "done" =>
          Len(result_df) = CountWhere(CsvEntries, LAMBDA e : IsAvgTable(e.content))

\* C4: the Result Table of process_teacher_csvs has at most as many rows as
\* there are discovered .csv files, and exactly as many if and only if every
\* discovered file is valid (an AVG column and at least 21 rows).
C4_RowCount ==
    (fn = "default" /\ pc = "done") =>
        /\ Len(result_df) <= Len(csv_files)
        /\ (Len(result_df) = Len(csv_files)) <=>
              (\A k \in 1..Len(csv_files) : IsValid21(CsvEntries[k].content))

\* The whole run of either function over a listing, as a fold
RECURSIVE FoldFiles(_, _, _)
FoldFiles(entries, d, k) ==
    IF k > Len(entries) THEN [data |-> d, raised |-> FALSE]
    ELSE LET r == IF fn = "default" THEN ProcessDefault(d, entries[k])
                  ELSE ProcessCustom(d, entries[k], row_ranges)
         IN  IF r.raised THEN r ELSE FoldFiles(entries, r.data, k + 1)

LacksAvg(e) == e.content.kind = "table" /\ "AVG" \notin e.content.columns
EmptyData == IF fn = "default" THEN EmptyDefaultData ELSE EmptyCustomData(row_ranges)

\* C5: in both functions a table with no AVG column adds no record and
\* raises nothing, and the other files are handled as if it were absent: a
\* finished run (returned or raised) has the outcome of the same run over the
\* listing without the tables that lack the AVG column, and the pass over
\* such a table leaves the dict of lists as it was.
C5_NoAvgSkipped ==
    LET others == SelectSeq(CsvEntries, LAMBDA e : ~LacksAvg(e))
        run == FoldFiles(others, EmptyData, 1)
    IN  /\ pc = "done" =>
              /\ ~run.raised
              /\ data = run.data
              /\ result_df = DataFrame(run.data).rows
        /\ pc = "raised" => run.raised /\ data = run.data
        /\ (JustHandled /\ LacksAvg(LastEntry)) =>
              data = FoldFiles(SubSeq(CsvEntries, 1, idx - 1), EmptyData, 1).data

\* C5 witness: a run returned a record although the first file it handled
\* had no AVG column.
C5_Witness ==
    /\ pc = "done"
    /\ Len(csv_files) >= 2
    /\ LacksAvg(CsvEntries[1])
    /\ Len(result_df) >= 1

\* C9: the Name of a record is the file name without its trailing '.csv'
\* (Name + '.csv' is the file name), so the Names of a Result Table are
\* pairwise distinct.
C9_NameIsStem ==
    /\ (JustHandled /\ IsAvgTable(LastEntry.content)) =>
          /\ Len(data.Name) >= 1
          /\ LastOf("Name") \o DotCsv = LastEntry.name
    /\ pc = "done" =>
          \A i, j \in 1..Len(result_df) :
              i # j => result_df[i].Name # result_df[j].Name

\* C10: in process_teacher_csvs_custom, between iterations and at the end of
\* the loop every list of the dict has the length of the Name list, and an
\* iteration either appends one value to every list or leaves every list as
\* it was: what earlier files appended stays.
C10_ColumnsInStep ==
    /\ [](fn = "custom" /\ pc \in {"loop", "done"} =>
             \A c \in DOMAIN data : Len(data[c]) = Len(data.Name))
    /\ [][(fn = "custom" /\ pc = "loop") =>
             \/ \A c \in DOMAIN data : data'[c] = data[c]
             \/ \A c \in DOMAIN data :
                   Len(data'[c]) = Len(data[c]) + 1 /\ IsPrefix(data[c], data'[c])]_vars

\* C10 witness: the custom loop skipped one file and then took a record from
\* a table that is shorter than the end of a configured band.
C10_Witness ==
    /\ fn = "custom" /\ pc = "loop" /\ idx = 2
    /\ Len(data.Name) = 1
    /\ IsAvgTable(LastEntry.content)
    /\ \E k \in 1..Len(row_ranges) : Len(LastEntry.content.AVG) < row_ranges[k].end
    /\ \A c \in DOMAIN data : Len(data[c]) = 1

====
